---------------------------- MODULE Spec2Model ----------------------------
(***************************************************************************)
(* JSONTemplate (src/json-template.js): a logic-free template engine that  *)
(* fills clones of a <template>'s content from JSON-like records and       *)
(* appends them to a target element.                                       *)
(*                                                                         *)
(* The document is a heap of nodes (a sequence, a node's id is its index). *)
(* JavaScript strings are sequences of one-character strings, JavaScript   *)
(* values are tagged records, objects are association lists.               *)
(***************************************************************************)
EXTENDS Naturals, Sequences, FiniteSets

(***************************************************************************)
(* JavaScript values                                                       *)
(***************************************************************************)
Str(s)  == [t |-> "str",  chars |-> s]
Num(n)  == [t |-> "num",  num |-> n]
Null    == [t |-> "null"]
Arr(es) == [t |-> "arr",  items |-> es]
Obj(ps) == [t |-> "obj",  props |-> ps]
Prop(k, val) == [k |-> k, val |-> val]

DigitChars == <<"0", "1", "2", "3", "4", "5", "6", "7", "8", "9">>

RECURSIVE NumToStr(_)
NumToStr(n) ==
  IF n < 10 THEN <<DigitChars[n + 1]>>
  ELSE NumToStr(n \div 10) \o <<DigitChars[(n % 10) + 1]>>

ObjectObjectStr ==
  <<"[", "o", "b", "j", "e", "c", "t", " ", "O", "b", "j", "e", "c", "t", "]">>
NullStr == <<"n", "u", "l", "l">>
LengthStr == <<"l", "e", "n", "g", "t", "h">>

\* String(v): the conversion JavaScript applies when a value is used as text.
RECURSIVE JSString(_), JoinFrom(_,_)
JSString(v) ==
  CASE v.t = "str"  -> v.chars
    [] v.t = "num"  -> NumToStr(v.num)
    [] v.t = "null" -> NullStr
    [] v.t = "arr"  -> JoinFrom(v.items, 1)
    [] OTHER        -> ObjectObjectStr

\* Array.prototype.join(","): null entries join as the empty string.
JoinFrom(es, i) ==
  IF i > Len(es) THEN <<>>
  ELSE (IF es[i].t = "null" THEN <<>> ELSE JSString(es[i]))
       \o (IF i < Len(es) THEN <<",">> \o JoinFrom(es, i + 1) ELSE <<>>)

\* An array index written as a property name (single digits suffice here).
IndexOf(k) ==
  IF Len(k) = 1 /\ \E d \in 1..10 : DigitChars[d] = k[1]
  THEN (CHOOSE d \in 1..10 : DigitChars[d] = k[1]) - 1
  ELSE 10

\* `k in v` for v an object or an array (own properties; the property names
\* of the model never name an inherited one).
HasProp(v, k) ==
  CASE v.t = "obj" -> \E i \in 1..Len(v.props) : v.props[i].k = k
    [] v.t = "arr" -> k = LengthStr \/ IndexOf(k) < Len(v.items)
    [] OTHER       -> FALSE

\* v[k], for HasProp(v, k).
GetProp(v, k) ==
  CASE v.t = "obj" -> v.props[CHOOSE i \in 1..Len(v.props) : v.props[i].k = k].val
    [] v.t = "arr" -> IF k = LengthStr THEN Num(Len(v.items)) ELSE v.items[IndexOf(k) + 1]
    [] OTHER       -> Null

\* typeof v === 'object' (true of null as well).
TypeofObject(v) == v.t \in {"obj", "arr", "null"}

\* `k in v` raises a TypeError when v is not an object.
InThrows(v) == v.t \in {"str", "num", "null"}

\* v instanceof Object
InstanceofObject(v) == v.t \in {"obj", "arr"}

(***************************************************************************)
(* DOM nodes                                                               *)
(***************************************************************************)
Attr(name, value) == [name |-> name, value |-> value]

MkNode(type, tag, attrs, text) ==
  [type |-> type, tag |-> tag, attrs |-> attrs, text |-> text,
   kids |-> <<>>, parent |-> 0, content |-> 0, orig |-> 0]

IsElement(h, n)  == h[n].type \in {"element", "template"}
\* ('content' in ch) && (ch.content instanceof DocumentFragment)
HasContent(h, n) == h[n].type = "template"

ChildNodes(h, n) == h[n].kids

RECURSIVE ElementsOf(_,_,_)
ElementsOf(h, ks, i) ==
  IF i > Len(ks) THEN <<>>
  ELSE (IF IsElement(h, ks[i]) THEN <<ks[i]>> ELSE <<>>) \o ElementsOf(h, ks, i + 1)

\* node.children: the element children, in order.
Children(h, n) == ElementsOf(h, h[n].kids, 1)

HasAttr(h, n, name) == \E i \in 1..Len(h[n].attrs) : h[n].attrs[i].name = name
GetAttr(h, n, name) ==
  IF HasAttr(h, n, name)
  THEN h[n].attrs[CHOOSE i \in 1..Len(h[n].attrs) : h[n].attrs[i].name = name].value
  ELSE <<>>

\* element.setAttribute(name, value)
SetAttribute(h, n, name, value) ==
  IF HasAttr(h, n, name)
  THEN LET i == CHOOSE j \in 1..Len(h[n].attrs) : h[n].attrs[j].name = name
       IN [h EXCEPT ![n].attrs[i].value = value]
  ELSE [h EXCEPT ![n].attrs = Append(@, Attr(name, value))]

RECURSIVE Without(_,_)
Without(s, x) ==
  IF s = <<>> THEN <<>>
  ELSE (IF Head(s) = x THEN <<>> ELSE <<Head(s)>>) \o Without(Tail(s), x)

PosIn(s, x) == CHOOSE i \in 1..Len(s) : s[i] = x

\* Take a node out of its parent.
Detach(h, n) ==
  IF h[n].parent = 0 THEN h
  ELSE [h EXCEPT ![h[n].parent].kids = Without(@, n), ![n].parent = 0]

RECURSIVE SetParents(_,_,_)
SetParents(h, ns, p) ==
  IF ns = <<>> THEN h
  ELSE SetParents([h EXCEPT ![Head(ns)].parent = p], Tail(ns), p)

\* An insertion that takes only the first child of a fragment.
InsertedFirst(h, node) ==
  IF h[node].type # "fragment" THEN <<node>>
  ELSE IF h[node].kids = <<>> THEN <<>> ELSE <<Head(h[node].kids)>>

\* The nodes an insertion of `node` puts into the tree: a fragment's children,
\* else the node itself.
Inserted(h, node) == IF h[node].type = "fragment" THEN h[node].kids ELSE <<node>>

\* parent.appendChild(node): a fragment is emptied into the parent.
AppendChild(h, parent, node) ==
  LET ns == Inserted(h, node)
      h1 == IF h[node].type = "fragment" THEN [h EXCEPT ![node].kids = <<>>]
            ELSE Detach(h, node)
      h2 == SetParents(h1, ns, parent)
  IN [h2 EXCEPT ![parent].kids = @ \o ns]

\* parent.replaceChild(node, child), for child a child of parent; replacing a
\* node by itself leaves the tree as it is.
ReplaceChild(h, parent, node, child) ==
  IF node = child THEN h
  ELSE LET ns == Inserted(h, node)
           h1 == IF h[node].type = "fragment" THEN [h EXCEPT ![node].kids = <<>>]
                 ELSE Detach(h, node)
           i  == PosIn(h1[parent].kids, child)
           ks == h1[parent].kids
           h2 == SetParents(h1, ns, parent)
       IN [h2 EXCEPT ![parent].kids = SubSeq(ks, 1, i - 1) \o ns \o SubSeq(ks, i + 1, Len(ks)),
                     ![child].parent = 0]

\* parent.removeChild(child)
RemoveChild(h, parent, child) ==
  [h EXCEPT ![parent].kids = Without(@, child), ![child].parent = 0]

(***************************************************************************)
(* node.cloneNode(true): a fresh copy of the node and of its subtree; a    *)
(* <template>'s content fragment is cloned with it.  `orig` remembers the  *)
(* node a clone was made from.                                             *)
(***************************************************************************)
RECURSIVE CloneNode(_,_), CloneKids(_,_,_,_)
\* A copy that shares the content fragment of a <template> with its source.
CloneNodeSharingContent(h, n) ==
  LET id == Len(h) + 1
      h0 == Append(h, [h[n] EXCEPT !.kids = <<>>, !.parent = 0,
                                   !.orig = IF h[n].orig = 0 THEN n ELSE h[n].orig])
  IN [h |-> CloneKids(h0, h[n].kids, 1, id), id |-> id]

CloneNode(h, n) ==
  LET id == Len(h) + 1
      h0 == Append(h, [h[n] EXCEPT !.kids = <<>>, !.parent = 0, !.content = 0,
                                   !.orig = IF h[n].orig = 0 THEN n ELSE h[n].orig])
      c  == IF h[n].content = 0 THEN [h |-> h0, id |-> 0] ELSE CloneNode(h0, h[n].content)
      h1 == IF h[n].content = 0 THEN h0 ELSE [c.h EXCEPT ![id].content = c.id]
  IN [h |-> CloneKids(h1, h[n].kids, 1, id), id |-> id]

CloneKids(h, ks, i, p) ==
  IF i > Len(ks) THEN h
  ELSE LET c == CloneNode(h, ks[i])
       IN CloneKids([c.h EXCEPT ![p].kids = Append(@, c.id), ![c.id].parent = p], ks, i + 1, p)

(***************************************************************************)
(* Markup: what the document's parser builds.  A blueprint is a node       *)
(* before it is put in the heap.                                           *)
(***************************************************************************)
TemplateStr == <<"t", "e", "m", "p", "l", "a", "t", "e">>

TextBP(s) ==
  [type |-> "text", tag |-> <<>>, attrs |-> <<>>, text |-> s, kids |-> <<>>, content |-> <<>>]
ElemBP(tag, attrs, kids) ==
  [type |-> "element", tag |-> tag, attrs |-> attrs, text |-> <<>>, kids |-> kids, content |-> <<>>]
TmplBP(attrs, content) ==
  [type |-> "template", tag |-> TemplateStr, attrs |-> attrs, text |-> <<>>, kids |-> <<>>,
   content |-> content]
PIBP(target, data) ==
  [type |-> "pi", tag |-> target, attrs |-> <<>>, text |-> data, kids |-> <<>>, content |-> <<>>]

RECURSIVE Build(_,_), BuildKids(_,_,_,_)
\* Put a blueprint in the heap; a template gets its content fragment.
Build(h, bp) ==
  LET id == Len(h) + 1
      h0 == Append(h, MkNode(bp.type, bp.tag, bp.attrs, bp.text))
      f  == Len(h0) + 1
      h1 == IF bp.type = "template"
            THEN BuildKids([Append(h0, MkNode("fragment", <<>>, <<>>, <<>>)) EXCEPT ![id].content = f],
                           bp.content, 1, f)
            ELSE h0
  IN [h |-> BuildKids(h1, bp.kids, 1, id), id |-> id]

BuildKids(h, bps, i, p) ==
  IF i > Len(bps) THEN h
  ELSE LET b == Build(h, bps[i])
       IN BuildKids([b.h EXCEPT ![p].kids = Append(@, b.id), ![b.id].parent = p], bps, i + 1, p)

MarkupChars == {"<", ">", "&"}
HasMarkup(s) == \E i \in 1..Len(s) : s[i] \in MarkupChars

\* <t>body</t> with a one-letter tag and a body free of markup.
IsSimpleElement(s) ==
  /\ Len(s) >= 7
  /\ s[1] = "<" /\ s[3] = ">"
  /\ s[Len(s) - 3] = "<" /\ s[Len(s) - 2] = "/" /\ s[Len(s) - 1] = s[2] /\ s[Len(s)] = ">"
  /\ ~HasMarkup(SubSeq(s, 4, Len(s) - 4))

\* The HTML fragment parser on the strings of the model: no text gives no
\* node, <t>body</t> gives an element holding the body, text gives a text node.
ParseHTML(s) ==
  IF s = <<>> THEN <<>>
  ELSE IF IsSimpleElement(s)
       THEN <<ElemBP(<<s[2]>>, <<>>, IF Len(s) = 7 THEN <<>> ELSE <<TextBP(SubSeq(s, 4, Len(s) - 4))>>)>>
       ELSE <<TextBP(s)>>

\* The DOMString an innerHTML assignment receives: null is the empty string.
InnerHTMLString(v) == IF v.t = "null" THEN <<>> ELSE JSString(v)

\* node.innerHTML = v.  On an element its children are replaced by the parsed
\* markup; on a <template> the children of its content are; a DocumentFragment
\* has no innerHTML, the assignment creates a plain property and the tree is
\* left as it is.
SetInnerHTML(h, n, v) ==
  IF ~IsElement(h, n) THEN h
  ELSE LET ctx == IF HasContent(h, n) THEN h[n].content ELSE n
           h1  == [SetParents(h, h[ctx].kids, 0) EXCEPT ![ctx].kids = <<>>]
       IN BuildKids(h1, ParseHTML(InnerHTMLString(v)), 1, ctx)

RECURSIVE TextContent(_,_), TextOfKids(_,_,_)
\* node.textContent
TextContent(h, n) ==
  IF h[n].type = "text" THEN h[n].text
  ELSE IF h[n].type = "pi" THEN <<>>
  ELSE TextOfKids(h, h[n].kids, 1)
TextOfKids(h, ks, i) ==
  IF i > Len(ks) THEN <<>> ELSE TextContent(h, ks[i]) \o TextOfKids(h, ks, i + 1)

(***************************************************************************)
(* Regular expressions of fillAttrs                                        *)
(***************************************************************************)
LitAt(s, i, lit) ==
  /\ i + Len(lit) - 1 <= Len(s)
  /\ SubSeq(s, i, i + Len(lit) - 1) = lit

\* lit([^stop]+)stop matched at position i: the index of the closing stop
\* character, 0 for no match.
MatchEnd(s, i, lit, stop) ==
  LET from == i + Len(lit)
  IN IF /\ LitAt(s, i, lit)
        /\ from <= Len(s)
        /\ s[from] # stop
        /\ \E j \in (from + 1)..Len(s) : s[j] = stop
     THEN CHOOSE j \in (from + 1)..Len(s) :
            s[j] = stop /\ \A k \in (from + 1)..(j - 1) : s[k] # stop
     ELSE 0

DollarBrace == <<"$", "{">>

\* /\$\{([^}]+)\}/ at position i
TokenEnd(s, i) == MatchEnd(s, i, DollarBrace, "}")
\* attr.value.match(/\$\{([^}]+)\}/)
HasToken(s) == \E i \in 1..Len(s) : TokenEnd(s, i) # 0

RECURSIVE SplitDots(_,_,_)
\* key.split('.')
SplitDots(s, i, cur) ==
  IF i > Len(s) THEN <<cur>>
  ELSE IF s[i] = "." THEN <<cur>> \o SplitDots(s, i + 1, <<>>)
  ELSE SplitDots(s, i + 1, Append(cur, s[i]))

\* The callback of reduce: (typeof acc === 'object') && (cur in acc) ? acc[cur] : ''.
\* `cur in null` raises a TypeError.
ReduceStep(a, cur) ==
  IF a.thrown THEN a
  ELSE IF TypeofObject(a.acc)
       THEN IF a.acc.t = "null" THEN [a EXCEPT !.thrown = TRUE]
            ELSE IF HasProp(a.acc, cur) THEN [a EXCEPT !.acc = GetProp(a.acc, cur)]
            ELSE [a EXCEPT !.acc = Str(<<>>)]
       ELSE [a EXCEPT !.acc = Str(<<>>)]

RECURSIVE Reduce(_,_,_)
Reduce(segs, i, a) == IF i > Len(segs) THEN a ELSE Reduce(segs, i + 1, ReduceStep(a, segs[i]))

\* The replacement of one token's path against data.
Resolve(path, data) == Reduce(SplitDots(path, 1, <<>>), 1, [acc |-> data, thrown |-> FALSE])

RECURSIVE ReplaceTokens(_,_,_)
\* value.replace(/\$\{([^}]+)\}/g, ...) from position i on.
ReplaceTokens(s, i, data) ==
  IF i > Len(s) THEN [out |-> <<>>, thrown |-> FALSE]
  ELSE LET j == TokenEnd(s, i) IN
    IF j = 0
    THEN LET r == ReplaceTokens(s, i + 1, data)
         IN [out |-> <<s[i]>> \o r.out, thrown |-> r.thrown]
    ELSE LET v == Resolve(SubSeq(s, i + 2, j - 1), data) IN
         IF v.thrown THEN [out |-> <<>>, thrown |-> TRUE]
         ELSE LET r == ReplaceTokens(s, j + 1, data)
              IN [out |-> JSString(v.acc) \o r.out, thrown |-> r.thrown]

WordChars ==
  {"a", "b", "c", "d", "e", "f", "g", "h", "i", "j", "k", "l", "m", "n", "o", "p", "q",
   "r", "s", "t", "u", "v", "w", "x", "y", "z", "0", "1", "2", "3", "4", "5", "6", "7",
   "8", "9", "_"}

NameEq == <<"n", "a", "m", "e", "=", "\"">>
KeyEq  == <<"k", "e", "y", "=", "\"">>

\* pi.data.match(/\b<lit>([^"]+)"/): the first position that matches.
FieldStarts(s, lit) ==
  {i \in 1..Len(s) : /\ MatchEnd(s, i, lit, "\"") # 0
                     /\ (i = 1 \/ s[i - 1] \notin WordChars)}
FieldFound(s, lit) == FieldStarts(s, lit) # {}
FieldValue(s, lit) ==
  LET i == CHOOSE x \in FieldStarts(s, lit) : \A y \in FieldStarts(s, lit) : x <= y
  IN SubSeq(s, i + Len(lit), MatchEnd(s, i, lit, "\"") - 1)

\* setAttribute raises InvalidCharacterError on a name that is no XML name.
NameBreakers == {" ", "=", ">", "<", "/", "'", "$", "{", "}"}
ValidAttrName(name) == \A i \in 1..Len(name) : name[i] \notin NameBreakers

(***************************************************************************)
(* The engine.  A fill runs on a machine m: the heap, whether an exception *)
(* is propagating (thrown), the console.error and console.warn counts, and *)
(* the template node whose next clone the environment takes out of its     *)
(* parent while it is being filled (fault, 0 for none): the "already       *)
(* detached" node the replacement handler of lines 142-146 is written for. *)
(***************************************************************************)
Machine(h, fault) == [h |-> h, thrown |-> FALSE, errors |-> 0, warns |-> 0, fault |-> fault]

AttrStr    == <<"a", "t", "t", "r">>
DataKeyStr == <<"d", "a", "t", "a", "-", "k", "e", "y">>
NameStr    == <<"n", "a", "m", "e">>
SlotStr    == <<"s", "l", "o", "t">>

RECURSIVE AttrPIs(_,_,_)
\* [...target.childNodes].filter(n => n instanceof ProcessingInstruction && n.target == 'attr')
AttrPIs(h, ks, i) ==
  IF i > Len(ks) THEN <<>>
  ELSE (IF h[ks[i]].type = "pi" /\ h[ks[i]].tag = AttrStr THEN <<ks[i]>> ELSE <<>>)
       \o AttrPIs(h, ks, i + 1)

\* One <?attr name=".." key=".."?> directive: set the attribute when both
\* fields parse and the key is in data; anything raised is caught and warned.
Directive(m, target, pi, data) ==
  LET d == m.h[pi].text IN
  IF ~FieldFound(d, NameEq) \/ ~FieldFound(d, KeyEq) \/ InThrows(data)
  THEN [m EXCEPT !.warns = @ + 1]
  ELSE LET name == FieldValue(d, NameEq)
           key  == FieldValue(d, KeyEq)
       IN IF ~HasProp(data, key) THEN m
          ELSE IF ~IsElement(m.h, target) \/ ~ValidAttrName(name)
               THEN [m EXCEPT !.warns = @ + 1]
               ELSE [m EXCEPT !.h = SetAttribute(@, target, name, JSString(GetProp(data, key)))]

RECURSIVE DirectivePass(_,_,_,_,_)
DirectivePass(m, target, pis, i, data) ==
  IF i > Len(pis) THEN m
  ELSE DirectivePass(Directive(m, target, pis[i], data), target, pis, i + 1, data)

\* One attribute of the placeholder pass: every ${path} of its value is
\* replaced; a TypeError of the path walk leaves the value and propagates.
Placeholder(m, target, i, data) ==
  LET value == m.h[target].attrs[i].value IN
  IF ~HasToken(value) THEN m
  ELSE LET r == ReplaceTokens(value, 1, data)
       IN IF r.thrown THEN [m EXCEPT !.thrown = TRUE]
          ELSE [m EXCEPT !.h[target].attrs[i].value = r.out]

RECURSIVE PlaceholderPass(_,_,_,_)
\* Lines 190-201: the attributes of an element, in order; a node without
\* attributes (a DocumentFragment) is skipped.
PlaceholderPass(m, target, i, data) ==
  IF m.thrown \/ ~IsElement(m.h, target) \/ i > Len(m.h[target].attrs) THEN m
  ELSE PlaceholderPass(Placeholder(m, target, i, data), target, i + 1, data)

\* JSONTemplate.fillAttrs(target, data)
FillAttrs(m, target, data) ==
  PlaceholderPass(DirectivePass(m, target, AttrPIs(m.h, m.h[target].kids, 1), 1, data),
                  target, 1, data)

\* (ch.tagName.toLowerCase() == 'slot' && ch.name) ? ch.name : ch.dataset.key;
\* the empty sequence stands for a falsy key.
KeyOf(h, ch) ==
  IF h[ch].tag = SlotStr /\ GetAttr(h, ch, NameStr) # <<>>
  THEN GetAttr(h, ch, NameStr)
  ELSE GetAttr(h, ch, DataKeyStr)

\* ('content' in ch) && (ch.content instanceof DocumentFragment) ? ch.content : ch
ContentOrSelf(h, ch) == IF HasContent(h, ch) THEN h[ch].content ELSE ch

\* The environment's fault: the clone of template node m.fault is taken out
\* of its parent, once.
Disturb(m, ch) ==
  IF ~m.thrown /\ m.fault # 0 /\ m.h[ch].orig = m.fault
  THEN [m EXCEPT !.h = Detach(@, ch), !.fault = 0]
  ELSE m

\* A keyed node without its key in the data left where it is.
RemoveBoundKeep(m, ch) == m

\* Line 106: ch.parentNode.removeChild(ch); a null parentNode raises a TypeError.
RemoveBound(m, ch) ==
  IF m.h[ch].parent = 0 THEN [m EXCEPT !.thrown = TRUE]
  ELSE [m EXCEPT !.h = RemoveChild(@, m.h[ch].parent, ch)]

\* Lines 117 and 158: ch.parentNode.replaceChild(el, ch), unless an exception
\* is already propagating; a null parentNode raises a TypeError.
ReplaceBound(m, ch, el) ==
  IF m.thrown THEN m
  ELSE IF m.h[ch].parent = 0 THEN [m EXCEPT !.thrown = TRUE]
  ELSE [m EXCEPT !.h = ReplaceChild(@, m.h[ch].parent, el, ch)]

\* Lines 110-117: the keyed data is not an object.
ScalarBound(m, ch, v) ==
  ReplaceBound([m EXCEPT !.h = SetInnerHTML(@, ch, v)], ch, ContentOrSelf(m.h, ch))

RECURSIVE FillKey(_,_,_), FillLoop(_,_,_,_), FillEntries(_,_,_,_,_,_)

\* Lines 151-158: the keyed data is an object that is no array.
ObjectBound(m, ch, v) ==
  ReplaceBound(FillKey(m, ContentOrSelf(m.h, ch), v), ch, ContentOrSelf(m.h, ch))

\* Line 132: el.innerHTML = entry
SetEntryText(m, el, entry) ==
  IF m.thrown THEN m ELSE [m EXCEPT !.h = SetInnerHTML(@, el, entry)]

\* Lines 130-135: the copy c of the stencil is filled from a string or
\* number entry (attributes against data, then the text), else recursively.
FillCopy(m, c, entry, data) ==
  IF entry.t \in {"str", "num"}
  THEN SetEntryText(FillAttrs([m EXCEPT !.h = c.h], c.id, data), c.id, entry)
  ELSE FillKey([m EXCEPT !.h = c.h], c.id, entry)

\* Line 138: frag.appendChild(el)
AppendCopy(m, frag, el) ==
  IF m.thrown THEN m ELSE [m EXCEPT !.h = AppendChild(@, frag, el)]

\* Lines 126-138: one entry of the array; the copy is the next node made.
FillEntry(m, ch, frag, entry, data) ==
  AppendCopy(FillCopy(m, CloneNode(m.h, ContentOrSelf(m.h, ch)), entry, data),
             frag, Len(m.h) + 1)

FillEntries(m, ch, frag, es, i, data) ==
  IF m.thrown \/ i > Len(es) THEN m
  ELSE FillEntries(FillEntry(m, ch, frag, es[i], data), ch, frag, es, i + 1, data)

\* Lines 142-146: ch is replaced by frag; what the replacement raises is
\* caught and logged.
ReplaceByFragment(m, ch, frag) ==
  IF m.thrown THEN m
  ELSE IF m.h[ch].parent = 0 THEN [m EXCEPT !.errors = @ + 1]
  ELSE [m EXCEPT !.h = ReplaceChild(@, m.h[ch].parent, frag, ch)]

\* Lines 120-147: the keyed data is an array; frag is the next node made.
ArrayBound(m, ch, v, data) ==
  ReplaceByFragment(
    FillEntries([m EXCEPT !.h = Append(@, MkNode("fragment", <<>>, <<>>, <<>>))],
                ch, Len(m.h) + 1, v.items, 1, data),
    ch, Len(m.h) + 1)

\* Lines 103-160: the node carries a key.
Bind(m, ch, key, data) ==
  IF InThrows(data) THEN [m EXCEPT !.thrown = TRUE]
  ELSE IF ~HasProp(data, key) THEN RemoveBound(m, ch)
  ELSE IF ~InstanceofObject(GetProp(data, key)) THEN ScalarBound(m, ch, GetProp(data, key))
  ELSE IF GetProp(data, key).t = "arr" THEN ArrayBound(m, ch, GetProp(data, key), data)
  ELSE ObjectBound(m, ch, GetProp(data, key))

\* Lines 100-164: after fillAttrs, a node with a key is bound, a node without
\* one has its element children added to the end of the worklist.
Dispatch(m, ch, data) ==
  IF m.thrown THEN [m |-> m, push |-> <<>>]
  ELSE IF KeyOf(m.h, ch) # <<>>
       THEN [m |-> Bind(m, ch, KeyOf(m.h, ch), data), push |-> <<>>]
       ELSE [m |-> m, push |-> Children(m.h, ch)]

\* Lines 94-165, one node of the worklist: the machine after it and the
\* nodes it adds to the worklist.
FillChild(m, ch, data) == Dispatch(Disturb(FillAttrs(m, ch, data), ch), ch, data)

\* The loop goes on with the worklist extended.
Continue(r, children, i, data) == FillLoop(r.m, children \o r.push, i + 1, data)

FillLoop(m, children, i, data) ==
  IF m.thrown \/ i > Len(children) THEN m
  ELSE Continue(FillChild(m, children[i], data), children, i, data)

\* JSONTemplate.fillKey(target, data)
FillKey(m, target, data) == FillLoop(m, Children(m.h, target), 1, data)

(***************************************************************************)
(* The document and the calls of fill                                      *)
(***************************************************************************)
VARIABLES
  heap,    \* the nodes of the document and every node made since
  source,  \* the heap as the document was loaded
  calls,   \* one record per call of JSONTemplate.fill
  fault,   \* the template node a clone of which the environment detaches, or 0
  armed,   \* whether that is still to happen
  log      \* the appends to a target, in order: [call, rec, nodes, to]

vars == <<heap, source, calls, fault, armed, log>>

\* The document: <ul id="list">, a DocumentFragment (a node that is no
\* Element), a <div id="box"> (an element that is no <template>), and the
\* <template id="tpl"> with its content fragment.
ListId     == 1
ShadowId   == 2
BoxId      == 3
TemplateId == 4
ContentId  == 5

Document(content) ==
  Build(<<MkNode("element", <<"u", "l">>, <<>>, <<>>),
          MkNode("fragment", <<>>, <<>>, <<>>),
          MkNode("element", <<"d", "i", "v">>, <<>>, <<>>)>>,
        TmplBP(<<>>, content)).h

NodeArg(n)     == [kind |-> "node", id |-> n, sel |-> ""]
Selector(text) == [kind |-> "selector", id |-> 0, sel |-> text]

\* document.querySelector(sel): null (0) when nothing matches.
QuerySelector(sel) ==
  CASE sel = "#list" -> ListId
    [] sel = "#box"  -> BoxId
    [] sel = "#tpl"  -> TemplateId
    [] OTHER         -> 0

\* Lines 39-44: a string is used as a CSS selector.
ResolveArg(arg) == IF arg.kind = "selector" THEN QuerySelector(arg.sel) ELSE arg.id

\* target instanceof Element
IsElementArg(h, n) == n # 0 /\ IsElement(h, n)
\* template instanceof HTMLTemplateElement
IsTemplateArg(h, n) == n # 0 /\ h[n].type = "template"

\* An asynchronous sequence of records (an object with Symbol.asyncIterator).
Async(es) == [t |-> "async", items |-> es]

RECURSIVE CharsOf(_,_)
CharsOf(s, i) == IF i > Len(s) THEN <<>> ELSE <<Str(<<s[i]>>)>> \o CharsOf(s, i + 1)

\* Lines 53-56 and the iteration protocol: the records `for await` yields.
\* An array yields its entries, a string its characters; what is not
\* iterable is wrapped in an array.
RecordsOf(data) ==
  CASE data.t \in {"async", "arr"} -> data.items
    [] data.t = "str"              -> CharsOf(data.chars, 1)
    [] OTHER                       -> <<data>>

NewCall(targetArg, templateArg, data) ==
  [pc |-> "new", targetArg |-> targetArg, templateArg |-> templateArg, data |-> data,
   target |-> 0, template |-> 0, rest |-> <<>>, done |-> 0, filled |-> 0,
   nodes |-> <<>>, promise |-> "pending", value |-> <<>>]

\* resolve(value) and reject(reason): a settled promise stays as it is.
Settle(promise, to) == IF promise = "pending" THEN to ELSE promise

\* Lines 37-61: the executor up to its first suspension.  Both arguments are
\* resolved and tested (a failed test rejects, and the executor goes on);
\* reading data[Symbol.asyncIterator] of null raises a TypeError inside the
\* async executor, which ends it and settles nothing.
StartCall(h, c) ==
  LET target   == ResolveArg(c.targetArg)
      template == ResolveArg(c.templateArg)
      p1 == IF IsElementArg(h, target) THEN c.promise ELSE Settle(c.promise, "rejected")
      p2 == IF IsTemplateArg(h, template) THEN p1 ELSE Settle(p1, "rejected")
  IN [c EXCEPT !.target = target, !.template = template, !.promise = p2,
               !.pc   = IF c.data.t = "null" THEN "failed" ELSE "loop",
               !.rest = IF c.data.t = "null" THEN <<>> ELSE RecordsOf(c.data)]

Start(i) ==
  /\ calls[i].pc = "new"
  /\ calls' = [calls EXCEPT ![i] = StartCall(heap, calls[i])]
  /\ UNCHANGED <<heap, source, fault, armed, log>>

\* The item's element children pushed on nodes in place of its child nodes.
OutcomeOfElements(c, item, m) ==
  IF m.thrown
  THEN [h |-> m.h, c |-> [c EXCEPT !.pc = "failed", !.filled = @ + 1], fault |-> m.fault,
        appended |-> <<>>]
  ELSE IF c.target = 0
  THEN [h |-> m.h,
        c |-> [c EXCEPT !.pc = "failed", !.filled = @ + 1,
                        !.nodes = @ \o Children(m.h, item)],
        fault |-> m.fault, appended |-> <<>>]
  ELSE [h |-> AppendChild(m.h, c.target, item),
        c |-> [c EXCEPT !.filled = @ + 1, !.nodes = @ \o Children(m.h, item),
                        !.rest = Tail(@), !.done = @ + 1],
        fault |-> m.fault, appended |-> Children(m.h, item)]

\* Lines 68-72: the item's child nodes are pushed on nodes and the item is
\* appended; an exception of fillKey has ended the call before, and
\* target.appendChild raises when target is null.
Outcome(c, item, m) ==
  IF m.thrown
  THEN [h |-> m.h, c |-> [c EXCEPT !.pc = "failed", !.filled = @ + 1], fault |-> m.fault,
        appended |-> <<>>]
  ELSE IF c.target = 0
  THEN [h |-> m.h,
        c |-> [c EXCEPT !.pc = "failed", !.filled = @ + 1,
                        !.nodes = @ \o ChildNodes(m.h, item)],
        fault |-> m.fault, appended |-> <<>>]
  ELSE [h |-> AppendChild(m.h, c.target, item),
        c |-> [c EXCEPT !.filled = @ + 1, !.nodes = @ \o ChildNodes(m.h, item),
                        !.rest = Tail(@), !.done = @ + 1],
        fault |-> m.fault, appended |-> ChildNodes(m.h, item)]

\* Lines 63-66: the copy of the template's content is filled from the record.
FillItem(c, item, flt) ==
  Outcome(c, item.id, FillKey(Machine(item.h, flt), item.id, Head(c.rest)))

\* Lines 61-72, one record: the heap, the call and the fault after it, and
\* the nodes appended.  template.content.cloneNode raises when template is no
\* <template>.
FillRecord(h, c, flt) ==
  IF ~IsTemplateArg(h, c.template)
  THEN [h |-> h, c |-> [c EXCEPT !.pc = "failed"], fault |-> flt, appended |-> <<>>]
  ELSE FillItem(c, CloneNode(h, h[c.template].content), flt)

Step(i) ==
  /\ calls[i].pc = "loop"
  /\ calls[i].rest # <<>>
  /\ \E r \in {FillRecord(heap, calls[i], IF armed THEN fault ELSE 0)} :
        /\ heap' = r.h
        /\ calls' = [calls EXCEPT ![i] = r.c]
        /\ armed' = (r.fault # 0)
        /\ log' = IF r.c.pc = "failed" THEN log
                  ELSE Append(log, [call |-> i, rec |-> calls[i].done + 1,
                                    nodes |-> r.appended, to |-> calls[i].target])
  /\ UNCHANGED <<source, fault>>

\* Line 74: resolve(nodes) once the sequence is exhausted.
FinishCall(c) ==
  [c EXCEPT !.pc = "done", !.promise = Settle(@, "fulfilled"),
            !.value = IF c.promise = "pending" THEN c.nodes ELSE @]

Finish(i) ==
  /\ calls[i].pc = "loop"
  /\ calls[i].rest = <<>>
  /\ calls' = [calls EXCEPT ![i] = FinishCall(calls[i])]
  /\ UNCHANGED <<heap, source, fault, armed, log>>

Next ==
  \/ \E i \in DOMAIN calls : Start(i)
  \/ \E i \in DOMAIN calls : Step(i)
  \/ \E i \in DOMAIN calls : Finish(i)

(***************************************************************************)
(* Inputs                                                                  *)
(***************************************************************************)
A == <<"a">>
B == <<"b">>
X == Str(<<"x">>)
Y == Str(<<"y">>)
Seven == Num(7)
Empty == Str(<<>>)
Markup == Str(<<"<", "i", ">", "x", "<", "/", "i", ">">>)

Key(k) == Attr(DataKeyStr, k)
Li   == <<"l", "i">>
Div  == <<"d", "i", "v">>
Span == <<"s", "p", "a", "n">>
Title == <<"t", "i", "t", "l", "e">>
Href  == <<"h", "r", "e", "f">>

\* ${a.b} and ${b}
TokAB == <<"$", "{", "a", ".", "b", "}">>
TokB  == <<"$", "{", "b", "}">>
\* name="href" key="b"
HrefFromB ==
  <<"n", "a", "m", "e", "=", "\"", "h", "r", "e", "f", "\"", " ",
    "k", "e", "y", "=", "\"", "b", "\"">>

\* Sequences over S of length at most n.
RECURSIVE SeqsUpTo(_,_)
SeqsUpTo(S, n) ==
  IF n = 0 THEN {<<>>}
  ELSE LET shorter == SeqsUpTo(S, n - 1)
       IN shorter \cup {Append(q, x) : q \in {r \in shorter : Len(r) = n - 1}, x \in S}

InitOf(content, argsOfCalls, flt) ==
  /\ heap = Document(content)
  /\ source = heap
  /\ calls = argsOfCalls
  /\ fault = flt
  /\ armed = (flt # 0)
  /\ log = <<>>

\* The elements of the template that carry a key.
BoundElements(h) ==
  {n \in ContentId..Len(h) : IsElement(h, n) /\ KeyOf(h, n) # <<>>}

MaxRecs == 2
MaxArr  == 2
MaxTop  == 1
MaxLen  == 4

O1(k, v)         == Obj(<<Prop(k, v)>>)
O2(k, v, k2, v2) == Obj(<<Prop(k, v), Prop(k2, v2)>>)

(***************************************************************************)
(* Spec: one call of fill, any arguments, any data of up to MaxRecs        *)
(* records, with or without a detached node.                               *)
(***************************************************************************)
FillTemplates ==
  { <<ElemBP(Li, <<Key(A), Attr(Title, TokAB)>>, <<>>), TextBP(<<"t">>)>>,
    <<TmplBP(<<Key(A)>>, <<ElemBP(<<"b">>, <<Key(B)>>, <<>>)>>),
      ElemBP(<<"i">>, <<Key(B)>>, <<>>)>>,
    <<ElemBP(Div, <<>>, <<ElemBP(Span, <<Key(A)>>, <<>>),
                          ElemBP(<<"p">>, <<Key(B)>>, <<TextBP(<<"o">>)>>)>>)>> }

FillRecords ==
  { O1(A, X), O1(A, Null), O2(A, O1(B, Y), B, Y), O1(A, Arr(<<X, O1(B, Y)>>)), Seven }

FillData ==
  {Arr(q) : q \in SeqsUpTo(FillRecords, MaxRecs)}
    \cup {Async(q) : q \in SeqsUpTo(FillRecords, MaxRecs)}
    \cup {r \in FillRecords : TRUE}
    \cup {Null, Str(<<"x", "y">>)}

TargetArgs   == {NodeArg(ListId), Selector("#none"), NodeArg(ShadowId)}
TemplateArgs == {Selector("#tpl"), Selector("#none"), NodeArg(BoxId)}

Init ==
  \E content \in FillTemplates, ta \in TargetArgs, te \in TemplateArgs, d \in FillData :
    \E flt \in {0} \cup BoundElements(Document(content)) :
      /\ flt # 0 => (ta = NodeArg(ListId) /\ te = Selector("#tpl"))
      /\ InitOf(content, <<NewCall(ta, te, d)>>, flt)

Spec == Init /\ [][Next]_vars

(***************************************************************************)
(* SpecPair: two calls on the same target, each with an asynchronous       *)
(* sequence.                                                               *)
(***************************************************************************)
PairRecords == { O1(A, X), O1(A, Arr(<<X, Y>>)) }
PairData == {Async(q) : q \in SeqsUpTo(PairRecords, MaxRecs)}

InitPair ==
  \E content \in FillTemplates, d1 \in PairData, d2 \in PairData :
    InitOf(content, <<NewCall(NodeArg(ListId), Selector("#tpl"), d1),
                      NewCall(Selector("#list"), NodeArg(TemplateId), d2)>>, 0)

SpecPair == InitPair /\ [][Next]_vars

(***************************************************************************)
(* SpecKey: one record filled into one template.                           *)
(***************************************************************************)
KeyElements ==
  { ElemBP(Li, <<Key(A)>>, <<>>),
    ElemBP(Div, <<>>, <<ElemBP(Span, <<Key(A)>>, <<>>), TextBP(<<"t">>),
                        ElemBP(<<"i">>, <<Key(B)>>, <<>>)>>),
    TmplBP(<<Key(A)>>, <<ElemBP(<<"i">>, <<Key(B)>>, <<>>)>>),
    ElemBP(SlotStr, <<Attr(NameStr, A)>>, <<TextBP(<<"o">>)>>),
    ElemBP(Div, <<Key(A)>>, <<ElemBP(Span, <<Key(B)>>, <<>>)>>),
    TmplBP(<<>>, <<ElemBP(<<"i">>, <<Key(A)>>, <<>>)>>),
    ElemBP(<<"p">>, <<Key(B)>>, <<TextBP(<<"o">>)>>),
    ElemBP(<<"a">>, <<Attr(Title, TokB), Key(A)>>, <<PIBP(AttrStr, HrefFromB)>>),
    TextBP(<<"t">>) }

KeyTemplates ==
  (SeqsUpTo(KeyElements, MaxTop) \ {<<>>})
    \cup { <<ElemBP(Li, <<Key(A)>>, <<>>), TextBP(<<"t">>), ElemBP(<<"p">>, <<Key(B)>>, <<>>)>>,
           <<TmplBP(<<Key(A)>>, <<TextBP(<<"o">>), ElemBP(<<"i">>, <<Key(B)>>, <<>>)>>),
             ElemBP(Div, <<>>, <<ElemBP(Li, <<Key(A)>>, <<ElemBP(<<"b">>, <<Key(B)>>, <<>>)>>)>>)>> }

Entries == { X, Seven, O1(B, Y), Obj(<<>>) }
ValuesA ==
  {X, Seven, Null, Empty, Markup, Obj(<<>>), O1(B, Y)}
    \cup {Arr(q) : q \in SeqsUpTo(Entries, MaxArr)}
ValuesB == {Y, Seven}

KeyRecords ==
  {Obj(<<>>)} \cup {O1(A, va) : va \in ValuesA} \cup {O1(B, vb) : vb \in ValuesB}
    \cup {O2(A, va, B, vb) : va \in ValuesA, vb \in ValuesB}

InitKey ==
  \E content \in KeyTemplates, r \in KeyRecords :
    InitOf(content, <<NewCall(NodeArg(ListId), NodeArg(TemplateId), r)>>, 0)

SpecKey == InitKey /\ [][Next]_vars

(***************************************************************************)
(* SpecAttrs: one record filled into an element with one attribute.        *)
(***************************************************************************)
AttrChars == {"$", "{", "}", ".", "a", "b"}
AttrValues ==
  SeqsUpTo(AttrChars, MaxLen)
    \cup { TokAB, <<"b">> \o TokAB \o <<".">> \o TokB,
           <<"$", "{", "a", ".", "b", ".", "a", "}">>,
           <<"$", "{", "a", ".", ".", "b", "}">> }

AttrRecords ==
  { Obj(<<>>), O1(A, X), O1(A, O1(B, Y)), O2(A, Seven, B, Y), O1(A, Null),
    O1(A, O1(B, Null)), O1(A, Arr(<<X>>)), X }

InitAttrs ==
  \E value \in AttrValues, r \in AttrRecords :
    InitOf(<<ElemBP(<<"a">>, <<Attr(Title, value)>>, <<>>)>>,
           <<NewCall(NodeArg(ListId), NodeArg(TemplateId), Arr(<<r>>))>>, 0)

SpecAttrs == InitAttrs /\ [][Next]_vars

(***************************************************************************)
(* What the properties speak of                                            *)
(***************************************************************************)
Terminated(c) == c.pc \in {"done", "failed"}

\* The arguments name an element and a <template>.
ValidArgs(c) ==
  /\ IsElementArg(source, ResolveArg(c.targetArg))
  /\ IsTemplateArg(source, ResolveArg(c.templateArg))

RECURSIVE RecsFrom(_,_), NodesFrom(_,_), NodesInto(_,_)
\* The record numbers of the appends of call i, in the order of the appends.
RecsFrom(i, k) ==
  IF k > Len(log) THEN <<>>
  ELSE (IF log[k].call = i THEN <<log[k].rec>> ELSE <<>>) \o RecsFrom(i, k + 1)
\* The nodes call i has appended, in the order of the appends.
NodesFrom(i, k) ==
  IF k > Len(log) THEN <<>>
  ELSE (IF log[k].call = i THEN log[k].nodes ELSE <<>>) \o NodesFrom(i, k + 1)
\* The nodes appended to node t, record after record.
NodesInto(t, k) ==
  IF k > Len(log) THEN <<>>
  ELSE (IF log[k].to = t THEN log[k].nodes ELSE <<>>) \o NodesInto(t, k + 1)

\* Filling a copy of the template from r raises nothing when nothing
\* disturbs it.
Clean(r) ==
  ~FillKey(Machine(CloneNode(source, ContentId).h, 0), Len(source) + 1, r).thrown

\* The data is a record or a sequence of records, each of them an object.
ObjectRecords(data) ==
  /\ data.t \in {"obj", "arr", "async"}
  /\ \A k \in 1..Len(RecordsOf(data)) : RecordsOf(data)[k].t = "obj"

AllClean(rs) == \A k \in 1..Len(rs) : Clean(rs[k])

(***************************************************************************)
(* Properties of fill (Spec)                                               *)
(***************************************************************************)

\* C1: a call with an element, a <template> and data that yields the
\* objects r1..rn appends the copies in the order of the records (the k-th append is the
\* copy of the k-th record), and once it has ended the target has received
\* exactly n copies.  Fails: a record whose fill raises ends the loop.
C1_OneCopyPerRecordInOrder ==
  \A i \in DOMAIN calls :
    (ValidArgs(calls[i]) /\ ObjectRecords(calls[i].data) /\ fault = 0) =>
      /\ \A k \in 1..Len(RecsFrom(i, 1)) : RecsFrom(i, 1)[k] = k
      /\ heap[ListId].kids = NodesInto(ListId, 1)
      /\ Terminated(calls[i]) => Len(RecsFrom(i, 1)) = Len(RecordsOf(calls[i].data))

\* C2: once a call has run to its end, its promise is settled (fulfilled
\* or rejected).  Every call ends, the data being finite, so this is the
\* promise settling eventually.  Fails: an exception inside the async
\* executor ends the call and leaves the promise pending.
C2_PromiseSettles ==
  \A i \in DOMAIN calls :
    (fault = 0 /\ Terminated(calls[i])) => calls[i].promise # "pending"

\* C3: the array a fulfilled promise carries is the sequence of the
\* top-level nodes the call appended, in the order of insertion: it is the
\* sequence of the target's children (the target was empty and no other
\* call runs), and each of them has the target as its parent.
C3_ReturnsInsertedNodes ==
  \A i \in DOMAIN calls :
    calls[i].promise = "fulfilled" =>
      /\ calls[i].value = heap[calls[i].target].kids
      /\ calls[i].value = NodesFrom(i, 1)
      /\ \A k \in 1..Len(calls[i].value) : heap[calls[i].value[k]].parent = calls[i].target

\* C3's case: a fulfilled call that returns a text node and an element of
\* two records.
C3_Witness ==
  \E i \in DOMAIN calls :
    /\ calls[i].promise = "fulfilled"
    /\ calls[i].done >= 2
    /\ \E k \in 1..Len(calls[i].value) : heap[calls[i].value[k]].type = "text"
    /\ \E k \in 1..Len(calls[i].value) : heap[calls[i].value[k]].type = "element"

\* C4: a call whose target is no element or whose template is no
\* <template> rejects, fills no record and appends nothing to the target it
\* was given.  Fails: reject() does not leave the executor, so the loop runs.
C4_InvalidArgsFillNothing ==
  \A i \in DOMAIN calls :
    (calls[i].pc # "new" /\ ~ValidArgs(calls[i])) =>
      /\ calls[i].promise = "rejected"
      /\ calls[i].filled = 0
      /\ ResolveArg(calls[i].targetArg) # 0 => heap[ResolveArg(calls[i].targetArg)].kids = <<>>

\* C5: the <template>, its content and the content of the templates
\* nested in it are as the document was loaded, whatever has been filled.
C5_TemplateSourceUnchanged ==
  \A n \in TemplateId..Len(source) : heap[n] = source[n]

\* C5's case: a record has been filled and appended, the copy of a node of
\* the source has received children (a text or a markup assignment) and the
\* copy of another its attribute value.
C5_Witness ==
  /\ \E i \in DOMAIN calls : calls[i].done >= 1
  /\ \E n \in (Len(source) + 1)..Len(heap) :
       /\ heap[n].orig \in TemplateId..Len(source)
       /\ heap[n].kids # <<>>
       /\ source[heap[n].orig].kids = <<>>
  /\ \E n \in (Len(source) + 1)..Len(heap) :
       /\ heap[n].orig \in TemplateId..Len(source)
       /\ heap[n].attrs # source[heap[n].orig].attrs

\* C9: when the structural edit of a bound node has failed (the node was
\* taken out of its parent) and nothing else raises, the call still fills
\* and appends every record and fulfils its promise.  Fails: only the
\* replacement by the array's fragment is guarded.
C9_EditFailureIsCaught ==
  \A i \in DOMAIN calls :
    (fault # 0 /\ ~armed /\ Terminated(calls[i]) /\ AllClean(RecordsOf(calls[i].data))) =>
      /\ calls[i].pc = "done"
      /\ calls[i].done = Len(RecordsOf(calls[i].data))
      /\ calls[i].promise = "fulfilled"

(***************************************************************************)
(* Properties of interleaved calls (SpecPair)                              *)
(***************************************************************************)

\* C10: the children of the target are the nodes of the appended records,
\* record after record in the order of the appends: the nodes of one record
\* are contiguous, no node of another call lies between them, and the
\* target holds nothing but whole filled copies.
C10_RecordsAreContiguous ==
  /\ heap[ListId].kids = NodesInto(ListId, 1)
  /\ \A k \in 1..Len(log) : \A j \in 1..Len(log[k].nodes) :
       heap[log[k].nodes[j]].parent = ListId

\* C10's case: the two calls have appended in turn, one of the records
\* with more than one top-level node.
C10_Witness ==
  /\ Len(log) >= 3
  /\ log[1].call # log[2].call
  /\ log[2].call # log[3].call
  /\ \E k \in 1..Len(log) : Len(log[k].nodes) >= 2

(***************************************************************************)
(* Properties of fillKey (SpecKey).  The filled tree is compared with the  *)
(* one read off the template top down; nodes are compared without their    *)
(* identity and their attributes.                                          *)
(***************************************************************************)
RECURSIVE Shape(_,_), ShapeKids(_,_,_), ShapesOf(_,_)
Shape(h, n) ==
  [type |-> h[n].type, tag |-> h[n].tag, text |-> h[n].text,
   kids |-> ShapeKids(h, h[n].kids, 1),
   content |-> IF h[n].content = 0 THEN <<>> ELSE ShapeKids(h, h[h[n].content].kids, 1)]
ShapeKids(h, ks, i) ==
  IF i > Len(ks) THEN <<>> ELSE <<Shape(h, ks[i])>> \o ShapeKids(h, ks, i + 1)

\* The shapes of parsed markup.
ShapesOf(bps, i) ==
  IF i > Len(bps) THEN <<>>
  ELSE <<[type |-> bps[i].type, tag |-> bps[i].tag, text |-> bps[i].text,
          kids |-> ShapesOf(bps[i].kids, 1), content |-> ShapesOf(bps[i].content, 1)]>>
       \o ShapesOf(bps, i + 1)

\* A string as the text of a node: one text node, none for the empty string.
TextOf(s) ==
  IF s = <<>> THEN <<>>
  ELSE <<[type |-> "text", tag |-> <<>>, text |-> s, kids |-> <<>>, content |-> <<>>]>>

\* A string assigned as markup: its text when it holds no markup.
MarkupOf(s) == IF HasMarkup(s) THEN ShapesOf(ParseHTML(s), 1) ELSE TextOf(s)

\* The children a bound node is filled through: a <template>'s content's.
Inner(h, n) == h[ContentOrSelf(h, n)].kids

\* A bound node with new children; a <template> is replaced by them.
Wrap(h, n, kids) == IF HasContent(h, n) THEN kids ELSE <<[Shape(h, n) EXCEPT !.kids = kids]>>

\* The readings of the filled tree.  value: a present value that is no
\* array becomes the node's text ("text"), or a string or number becomes its
\* markup, null no text, and an object is filled into the node's children
\* ("fill").  entry: a string or number entry of an array becomes the text
\* of the copy of every stencil ("every"), or of an element stencil only, the
\* copy of a <template>'s content staying as it is ("element").
AsStated  == [value |-> "text", entry |-> "every"]
AsAmended == [value |-> "fill", entry |-> "every"]

RECURSIVE Filled(_,_,_,_,_), FilledNode(_,_,_,_), FilledEntries(_,_,_,_,_)
FilledValue(h, n, v, sem) ==
  IF sem.value = "text" THEN Wrap(h, n, TextOf(JSString(v)))
  ELSE IF v.t = "obj" THEN Wrap(h, n, Filled(h, Inner(h, n), 1, v, sem))
  ELSE IF v.t = "null" THEN Wrap(h, n, <<>>)
  ELSE Wrap(h, n, MarkupOf(JSString(v)))

FilledEntry(h, n, e, sem) ==
  IF e.t \in {"str", "num"}
  THEN IF sem.entry = "element" /\ HasContent(h, n) THEN ShapeKids(h, Inner(h, n), 1)
       ELSE Wrap(h, n, MarkupOf(JSString(e)))
  ELSE Wrap(h, n, Filled(h, Inner(h, n), 1, e, sem))

FilledEntries(h, n, es, i, sem) ==
  IF i > Len(es) THEN <<>>
  ELSE FilledEntry(h, n, es[i], sem) \o FilledEntries(h, n, es, i + 1, sem)

\* What template node n becomes when filled from the object r.
FilledNode(h, n, r, sem) ==
  IF ~IsElement(h, n) THEN <<Shape(h, n)>>
  ELSE IF KeyOf(h, n) = <<>>
       THEN <<[Shape(h, n) EXCEPT !.kids = Filled(h, h[n].kids, 1, r, sem)]>>
  ELSE IF ~HasProp(r, KeyOf(h, n)) THEN <<>>
  ELSE IF GetProp(r, KeyOf(h, n)).t = "arr"
       THEN FilledEntries(h, n, GetProp(r, KeyOf(h, n)).items, 1, sem)
  ELSE FilledValue(h, n, GetProp(r, KeyOf(h, n)), sem)

Filled(h, ks, i, r, sem) ==
  IF i > Len(ks) THEN <<>>
  ELSE FilledNode(h, ks[i], r, sem) \o Filled(h, ks, i + 1, r, sem)

RECURSIVE BindsArray(_,_,_,_)
\* Some node the fill from r reaches is bound to an array.
BindsArray(h, ks, i, r) ==
  IF i > Len(ks) THEN FALSE
  ELSE \/ BindsArray(h, ks, i + 1, r)
       \/ /\ IsElement(h, ks[i])
          /\ IF KeyOf(h, ks[i]) = <<>> THEN BindsArray(h, h[ks[i]].kids, 1, r)
             ELSE /\ HasProp(r, KeyOf(h, ks[i]))
                  /\ \/ GetProp(r, KeyOf(h, ks[i])).t = "arr"
                     \/ /\ GetProp(r, KeyOf(h, ks[i])).t = "obj"
                        /\ BindsArray(h, Inner(h, ks[i]), 1, GetProp(r, KeyOf(h, ks[i])))

\* The call's one record has been filled and appended.
FilledOnce(c) == c.done = 1 /\ c.data.t = "obj"

TemplateBindsArray(c) == BindsArray(source, source[ContentId].kids, 1, c.data)

\* The target's children are the template's content filled from the record.
TargetShows(c, sem) ==
  ShapeKids(heap, heap[ListId].kids, 1) = Filled(source, source[ContentId].kids, 1, c.data, sem)

C7_ArrayCopiesFilled ==
  \A i \in DOMAIN calls :
    (FilledOnce(calls[i]) /\ TemplateBindsArray(calls[i])) => TargetShows(calls[i], AsAmended)

(***************************************************************************)
(* Properties of fillAttrs (SpecAttrs)                                     *)
(***************************************************************************)
RECURSIVE Walk(_,_,_), Substituted(_,_,_)
\* The value a path reaches: the empty string where a segment is missing or
\* the value before it is no object or array.
Walk(segs, i, v) ==
  IF i > Len(segs) THEN v
  ELSE IF v.t \in {"obj", "arr"} /\ HasProp(v, segs[i]) THEN Walk(segs, i + 1, GetProp(v, segs[i]))
  ELSE Str(<<>>)

\* An attribute value with every ${path} replaced by what the path reaches.
Substituted(s, i, r) ==
  IF i > Len(s) THEN <<>>
  ELSE IF TokenEnd(s, i) = 0 THEN <<s[i]>> \o Substituted(s, i + 1, r)
  ELSE JSString(Walk(SplitDots(SubSeq(s, i + 2, TokenEnd(s, i) - 1), 1, <<>>), 1, r))
         \o Substituted(s, TokenEnd(s, i) + 1, r)

\* C8: once the record has been filled, the copy's attribute holds the
\* template's value with every ${path} replaced by the value the path
\* reaches, by the empty string where a segment is missing or the value
\* before it is a scalar or null (so a value without a token is the same),
\* and the fill has gone on.  Fails: a null on the path raises a TypeError.
C8_TokensReplaced ==
  \A i \in DOMAIN calls :
    calls[i].filled >= 1 =>
      /\ calls[i].pc # "failed"
      /\ Len(heap[ListId].kids) = 1
      /\ heap[heap[ListId].kids[1]].attrs[1].value
           = Substituted(source[ContentId + 1].attrs[1].value, 1, Head(RecordsOf(calls[i].data)))

=============================================================================
